---- MODULE Spec2Model ----
(***************************************************************************)
(* BridgeFS (bridgefs-core): a filesystem kept as a content-addressed      *)
(* object graph plus one mutable root pointer.                             *)
(*                                                                         *)
(* Modelling conventions                                                   *)
(*  - A byte string produced by bincode is modelled by the value it        *)
(*    encodes (maps as functions, so the iteration order of a HashMap is   *)
(*    abstracted in this specification); the empty byte string is          *)
(*    EmptyBytes and decodes to no value.                                  *)
(*  - A HashPointer is modelled as [blake3 |-> content]: BLAKE3 is taken   *)
(*    to be collision free.                                                *)
(*  - The engine state threaded through the operators is the record        *)
(*    m = [index_hash, store, references, sets, panicked]: the fields of   *)
(*    BridgeFS / CountingStore / Manifest, the list of values written to   *)
(*    the root pointer during the current call, and whether the call has   *)
(*    panicked (unwrap/expect); a panicked call performs no further step.  *)
(*  - All clock readings taken within one call are the same instant.       *)
(***************************************************************************)
EXTENDS Integers, Sequences, FiniteSets, TLC

\* ------------------------------------------------------------------ bounds
MaxSteps == 3      \* number of engine calls in a behaviour
MaxInode == 4      \* inode arguments are drawn from 1..MaxInode
MaxTime == 1       \* clock readings are drawn from 0..MaxTime
MaxOffset == 2     \* write/read offsets are drawn from 0..MaxOffset
MaxData == 2       \* written buffers are 1..k for k in 0..MaxData
UsizeBits == 3     \* width of usize in the model

\* ------------------------------------------------------- program constants
FUSE_ROOT_ID == 1
INODE_DEFAULT == 2
DEFAULT_PERM == 493
DEFAULT_UID == 501
DEFAULT_GID == 20
TEST_PERM == 420
TEST_UID == 1000
TEST_GID == 1000

usize_MAX == 2^UsizeBits - 1

Names == {"a", "b"}
Times == 0..MaxTime
Inodes == 1..MaxInode
Offsets == 0..MaxOffset
Buffers == {[i \in 1..k |-> i] : k \in 0..MaxData}
Sizes == {0, 1, usize_MAX}

Errors == {"NotFound", "NotADirectory", "IsADirectory", "DirectoryNotEmpty", "AlreadyExists"}

\* ----------------------------------------------------------------- records
CommonAttrs(perm, uid, gid, now) ==
    [perm |-> perm, uid |-> uid, gid |-> gid,
     atime |-> now, mtime |-> now, ctime |-> now, crtime |-> now]

DefaultAttrs(now) == CommonAttrs(DEFAULT_PERM, DEFAULT_UID, DEFAULT_GID, now)

TestAttrs(now) == CommonAttrs(TEST_PERM, TEST_UID, TEST_GID, now)

AttrInputs == {DefaultAttrs(0), TestAttrs(MaxTime)}

NoChildren == [n \in {} |-> 0]

DataBlock(data) == [kind |-> "DataBlock", data |-> data]

FileRecord(content_hash, size, common_attrs) ==
    [kind |-> "File", content_hash |-> content_hash, size |-> size,
     common_attrs |-> common_attrs]

DirectoryRecord(children, common_attrs, parent) ==
    [kind |-> "Directory", children |-> children, common_attrs |-> common_attrs,
     parent |-> parent]

\* A counter that does not advance.
next_inode_stuck(inode) == inode

next_inode(inode) == inode + 1

\* An insert that binds the name to the root inode.
insert_root(directory, filename, inode) ==
    [directory EXCEPT !.children =
        [n \in DOMAIN @ \cup {filename} |-> IF n = filename THEN FUSE_ROOT_ID ELSE @[n]]]

insert(directory, filename, inode) ==
    [directory EXCEPT !.children =
        [n \in DOMAIN @ \cup {filename} |-> IF n = filename THEN inode ELSE @[n]]]

\* A removal that drops every name of the directory.
remove_clears(directory, filename) == [directory EXCEPT !.children = NoChildren]

remove(directory, filename) ==
    [directory EXCEPT !.children = [n \in DOMAIN @ \ {filename} |-> @[n]]]

\* An update of the attributes that leaves the four times as they were.
set_attrs_keep_times(record, attrs) ==
    [record EXCEPT !.common_attrs.perm = attrs.perm,
                   !.common_attrs.uid = attrs.uid,
                   !.common_attrs.gid = attrs.gid]

set_attrs(record, attrs) == [record EXCEPT !.common_attrs = attrs]

\* ------------------------------------------------------------------- index
INodeIndex_new(root_inode, root) ==
    [kind |-> "INodeIndex", next_inode |-> INODE_DEFAULT,
     inode_mapping |-> [i \in {root_inode} |-> root]]

\* An allocation that hands out again the inode it handed out last.
insert_new_inode_reuse(index, hash) ==
    LET inode == IF index.next_inode > INODE_DEFAULT THEN index.next_inode - 1
                 ELSE index.next_inode
    IN  [inode |-> inode,
         index |-> [index EXCEPT
            !.inode_mapping = [i \in DOMAIN @ \cup {inode} |->
                                 IF i = inode THEN hash ELSE @[i]],
            !.next_inode = next_inode(inode)]]

insert_new_inode(index, hash) ==
    [inode |-> index.next_inode,
     index |-> [index EXCEPT
        !.inode_mapping = [i \in DOMAIN @ \cup {index.next_inode} |->
                             IF i = index.next_inode THEN hash ELSE @[i]],
        !.next_inode = next_inode(@)]]

update_inode(index, inode, hash) ==
    [index EXCEPT !.inode_mapping =
        [i \in DOMAIN @ \cup {inode} |-> IF i = inode THEN hash ELSE @[i]]]

lookup_inode(index, inode) ==
    IF inode \in DOMAIN index.inode_mapping
    THEN [some |-> TRUE, hash |-> index.inode_mapping[inode]]
    ELSE [some |-> FALSE]

\* ----------------------------------------------------------- content store
EmptyBytes == [kind |-> "EmptyBytes"]
DecodeFailure == [kind |-> "DecodeFailure"]

blake3(content) == [blake3 |-> content]

encode_to_vec(value) == value

decode_from_slice(bytes) == IF bytes = EmptyBytes THEN DecodeFailure ELSE bytes

\* A put that keeps only the blob it stores.
add_content_alone(st, content) ==
    [h \in {blake3(content)} |-> content]

add_content(st, content) ==
    [h \in DOMAIN st \cup {blake3(content)} |->
        IF h = blake3(content) THEN content ELSE st[h]]

get_content(st, hash) == IF hash \in DOMAIN st THEN st[hash] ELSE EmptyBytes

get_parsed(st, hash) == decode_from_slice(get_content(st, hash))

add_parsed(st, value) ==
    [store |-> add_content(st, encode_to_vec(value)),
     hash |-> blake3(encode_to_vec(value))]

\* ---------------------------------------------------------------- manifest
add_reference(refs, reference) ==
    [h \in DOMAIN refs \cup {reference} |->
        IF h = reference
        THEN (IF h \in DOMAIN refs THEN refs[h] + 1 ELSE 1)
        ELSE refs[h]]

\* A decrement that leaves the entry in place at zero.
remove_reference_keep_zero(refs, reference) ==
    IF reference \notin DOMAIN refs THEN refs
    ELSE [refs EXCEPT ![reference] = @ - 1]

remove_reference(refs, reference) ==
    IF reference \notin DOMAIN refs THEN refs
    ELSE IF refs[reference] - 1 = 0
         THEN [h \in DOMAIN refs \ {reference} |-> refs[h]]
         ELSE [refs EXCEPT ![reference] = @ - 1]

Count(refs, h) == IF h \in DOMAIN refs THEN refs[h] ELSE 0

\* ---------------------------------------------------------- counting store
\* `let v = e; body`: e is evaluated once and bound to the parameter of F.
Let(v, F(_)) == F(v)

Panicked(m) == [m EXCEPT !.panicked = TRUE]

store_new_content(m, value) ==
    Let(add_parsed(m.store, value), LAMBDA added :
        [m |-> IF m.panicked THEN m
               ELSE [m EXCEPT !.store = added.store,
                              !.references = add_reference(@, added.hash)],
         hash |-> added.hash])

\* impl HasReferences for INodeIndex: an index replacement does not cascade
index_delete_references(m, item) == m

RECURSIVE delete_content(_, _)

delete_references(m, item) ==
    CASE item.kind = "File" -> delete_content(m, item.content_hash)
      [] item.kind = "Directory" -> m
      [] item.kind = "DataBlock" -> m
      [] item.kind = "INodeIndex" -> index_delete_references(m, item)

delete_content(m, hash) ==
    Let(get_parsed(m.store, hash), LAMBDA item_to_delete :
        IF m.panicked THEN m
        ELSE IF item_to_delete = DecodeFailure THEN Panicked(m)
        ELSE delete_references(
                [m EXCEPT !.references = remove_reference(@, hash)],
                item_to_delete))

replace_content(m, previous, value) ==
    Let(get_parsed(m.store, previous), LAMBDA item_to_delete :
        store_new_content(
            IF m.panicked THEN m
            ELSE IF item_to_delete = DecodeFailure THEN Panicked(m)
            ELSE delete_references(
                    [m EXCEPT !.references = remove_reference(@, previous)],
                    item_to_delete),
            value))

\* ------------------------------------------------------------ root pointer
\* Whether `hash` resolves in `st` to an index whose mapped records resolve.
RootResolves(st, hash) ==
    /\ hash \in DOMAIN st
    /\ st[hash].kind = "INodeIndex"
    /\ \A i \in DOMAIN st[hash].inode_mapping :
          st[hash].inode_mapping[i] \in DOMAIN st

\* InMemoryHashPointerReference::set through set_typed; the write is logged.
set_typed(m, value) ==
    IF m.panicked THEN m
    ELSE [m EXCEPT !.index_hash = value,
                   !.sets = Append(@, [value |-> value,
                                       resolved |-> RootResolves(m.store, value)])]

get_typed(m) == m.index_hash

\* ------------------------------------------------- Baybridge root pointer
\* The name has no registered value.
NoValue == [kind |-> "NoValue"]

Value_new(bytes) == [kind |-> "Value", bytes |-> bytes]

\* Actions::get_mine(name): the registered value, or an error: the name has
\* no value, or the read of the registry failed (`read_error`).
get_mine(registered, read_error) ==
    IF registered = NoValue \/ read_error THEN [ok |-> FALSE]
    ELSE [ok |-> TRUE, value |-> registered]

get_internal(registered, read_error) ==
    IF ~get_mine(registered, read_error).ok THEN [some |-> FALSE]
    ELSE [some |-> TRUE,
          hash |-> decode_from_slice(get_mine(registered, read_error).value.bytes)]

\* A set that registers a value only on a name that has none.
set_if_vacant(registered, value) ==
    IF registered = NoValue THEN Value_new(encode_to_vec(value)) ELSE registered

\* BaybridgeHashPointerReference::set: the value registered afterwards.
set(registered, value) == Value_new(encode_to_vec(value))

\* A get that registers the default whether or not the name has a value.
get_always_default(registered, default_value, read_error) ==
    [registered |-> set(registered, default_value), ret |-> default_value,
     writes |-> <<default_value>>]

\* BaybridgeHashPointerReference::get: the value registered afterwards, the
\* hash returned and the values this call registered.
get(registered, default_value, read_error) ==
    IF get_internal(registered, read_error).some
    THEN [registered |-> registered,
          ret |-> get_internal(registered, read_error).hash, writes |-> <<>>]
    ELSE [registered |-> set(registered, default_value), ret |-> default_value,
          writes |-> <<default_value>>]

\* ------------------------------------------------------------------ engine
Ok(inner, inode, source) ==
    [tag |-> "Ok", inner |-> inner, inode |-> inode, source |-> source]

Err(error) == [tag |-> error]

\* The outcome of a call: the engine state it leaves, its result ("Ok", an
\* error of the taxonomy, or "Panic") and the value it returns.
Outcome(m, result, ret) ==
    [m |-> m, result |-> IF m.panicked THEN "Panic" ELSE result, ret |-> ret]

NoRet == [none |-> TRUE]

\* An error (or panic) of a lookup, returned by the call that made it (`?`).
Fail(m, r) == Outcome(IF r.tag = "Panic" THEN Panicked(m) ELSE m, r.tag, NoRet)

get_index(m) ==
    [hash |-> get_typed(m), index |-> get_parsed(m.store, get_typed(m))]

lookup_record_by_inode(m, inode) ==
    Let(get_index(m).index, LAMBDA index :
        IF index = DecodeFailure THEN Err("Panic")
        ELSE IF ~lookup_inode(index, inode).some THEN Err("NotFound")
        ELSE Let(lookup_inode(index, inode).hash, LAMBDA record_hash :
             Let(get_parsed(m.store, record_hash), LAMBDA record :
                IF record = DecodeFailure THEN Err("Panic")
                ELSE Ok(record, inode, record_hash))))

\* A file lookup that reports a directory with the error of the other variant.
lookup_file_by_inode_wrong_error(m, inode) ==
    Let(lookup_record_by_inode(m, inode), LAMBDA record :
        IF record.tag # "Ok" THEN record
        ELSE IF record.inner.kind = "File" THEN record
        ELSE Err("NotADirectory"))

lookup_file_by_inode(m, inode) ==
    Let(lookup_record_by_inode(m, inode), LAMBDA record :
        IF record.tag # "Ok" THEN record
        ELSE IF record.inner.kind = "File" THEN record
        ELSE Err("IsADirectory"))

lookup_directory_by_inode(m, inode) ==
    Let(lookup_record_by_inode(m, inode), LAMBDA record :
        IF record.tag # "Ok" THEN record
        ELSE IF record.inner.kind = "Directory" THEN record
        ELSE Err("NotADirectory"))

\* A lookup by name that unwraps the entry of the parent's children.
lookup_record_by_name_unwrap(m, parent, name) ==
    Let(lookup_directory_by_inode(m, parent), LAMBDA dir :
        IF dir.tag # "Ok" THEN dir
        ELSE IF name \in DOMAIN dir.inner.children
             THEN lookup_record_by_inode(m, dir.inner.children[name])
             ELSE Err("Panic"))

lookup_record_by_name(m, parent, name) ==
    Let(lookup_directory_by_inode(m, parent), LAMBDA dir :
        IF dir.tag # "Ok" THEN dir
        ELSE IF name \in DOMAIN dir.inner.children
             THEN lookup_record_by_inode(m, dir.inner.children[name])
             ELSE Err("NotFound"))

lookup_directory_by_name(m, parent, name) ==
    Let(lookup_record_by_name(m, parent, name), LAMBDA record :
        IF record.tag # "Ok" THEN record
        ELSE IF record.inner.kind = "Directory" THEN record
        ELSE Err("NotADirectory"))

lookup_file_by_name(m, parent, name) ==
    Let(lookup_record_by_name(m, parent, name), LAMBDA record :
        IF record.tag # "Ok" THEN record
        ELSE IF record.inner.kind = "File" THEN record
        ELSE Err("IsADirectory"))

\* An update that writes the root pointer before the new index is stored.
update_index_root_first(m, inode, record) ==
    Let(get_index(m), LAMBDA prev :
        IF m.panicked THEN m
        ELSE IF prev.index = DecodeFailure THEN Panicked(m)
        ELSE IF ~lookup_inode(prev.index, inode).some THEN Panicked(m)
        ELSE Let(replace_content(m, lookup_inode(prev.index, inode).hash, record),
                 LAMBDA replaced :
             Let(update_inode(prev.index, inode, replaced.hash), LAMBDA new_index :
                replace_content(set_typed(replaced.m, blake3(encode_to_vec(new_index))),
                                prev.hash, new_index).m)))

update_index(m, inode, record) ==
    Let(get_index(m), LAMBDA prev :
        IF m.panicked THEN m
        ELSE IF prev.index = DecodeFailure THEN Panicked(m)
        ELSE IF ~lookup_inode(prev.index, inode).some THEN Panicked(m)
        ELSE Let(replace_content(m, lookup_inode(prev.index, inode).hash, record),
                 LAMBDA replaced :
             Let(replace_content(replaced.m, prev.hash,
                                 update_inode(prev.index, inode, replaced.hash)),
                 LAMBDA new_index :
                set_typed(new_index.m, new_index.hash))))

\* An insertion that does not look for the name in the parent first.
add_child_overwrite(m, parent_inode, filename, record) ==
    Let(lookup_directory_by_inode(m, parent_inode), LAMBDA parent :
        IF parent.tag # "Ok" THEN Fail(m, parent)
        ELSE Let(get_index(m), LAMBDA prev :
             Let(store_new_content(m, record), LAMBDA stored :
             Let(insert_new_inode(prev.index, stored.hash), LAMBDA added :
             Let(replace_content(stored.m, prev.hash, added.index), LAMBDA new_index :
                Outcome(update_index(set_typed(new_index.m, new_index.hash),
                                     parent.inode,
                                     insert(parent.inner, filename, added.inode)),
                        "Ok",
                        [source |-> stored.hash, inode |-> added.inode]))))))

add_child(m, parent_inode, filename, record) ==
    Let(lookup_directory_by_inode(m, parent_inode), LAMBDA parent :
        IF parent.tag # "Ok" THEN Fail(m, parent)
        ELSE IF filename \in DOMAIN parent.inner.children
             THEN Outcome(m, "AlreadyExists", NoRet)
        ELSE Let(get_index(m), LAMBDA prev :
             Let(store_new_content(m, record), LAMBDA stored :
             Let(insert_new_inode(prev.index, stored.hash), LAMBDA added :
             Let(replace_content(stored.m, prev.hash, added.index), LAMBDA new_index :
                Outcome(update_index(set_typed(new_index.m, new_index.hash),
                                     parent.inode,
                                     insert(parent.inner, filename, added.inode)),
                        "Ok",
                        [source |-> stored.hash, inode |-> added.inode]))))))

create_file(m, parent, name, attributes) ==
    Let(DataBlock(<<>>), LAMBDA empty_data :
    Let(store_new_content(m, empty_data), LAMBDA content :
    Let(FileRecord(content.hash, Len(empty_data.data), attributes), LAMBDA file_record :
    Let(add_child(content.m, parent, name, file_record), LAMBDA added :
        IF added.result # "Ok" THEN added
        ELSE Outcome(added.m, "Ok",
                     Ok(file_record, added.ret.inode, added.ret.source))))))

\* A create that leaves the parent field of the new directory at its default.
create_directory_default_parent(m, parent, name, attributes) ==
    Let(DirectoryRecord(NoChildren, attributes, INODE_DEFAULT), LAMBDA directory_record :
    Let(add_child(m, parent, name, directory_record), LAMBDA added :
        IF added.result # "Ok" THEN added
        ELSE Outcome(added.m, "Ok",
                     Ok(directory_record, added.ret.inode, added.ret.source))))

\* A create that records the root as the parent of every new directory.
create_directory_root_parent(m, parent, name, attributes) ==
    Let(DirectoryRecord(NoChildren, attributes, FUSE_ROOT_ID), LAMBDA directory_record :
    Let(add_child(m, parent, name, directory_record), LAMBDA added :
        IF added.result # "Ok" THEN added
        ELSE Outcome(added.m, "Ok",
                     Ok(directory_record, added.ret.inode, added.ret.source))))

create_directory(m, parent, name, attributes) ==
    Let(DirectoryRecord(NoChildren, attributes, parent), LAMBDA directory_record :
    Let(add_child(m, parent, name, directory_record), LAMBDA added :
        IF added.result # "Ok" THEN added
        ELSE Outcome(added.m, "Ok",
                     Ok(directory_record, added.ret.inode, added.ret.source))))

Min(a, b) == IF a < b THEN a ELSE b

\* Vec::resize(new_len, 0) on a vector that is not longer than new_len
resize(data, new_len) ==
    [k \in 1..new_len |-> IF k <= Len(data) THEN data[k] ELSE 0]

\* A copy that lands one byte early.
copy_from_slice_shifted(data, offset, src) ==
    [k \in 1..Len(data) |->
        IF k >= offset /\ k < offset + Len(src) /\ k - offset + 1 \in DOMAIN src
        THEN src[k - offset + 1] ELSE data[k]]

\* data[offset..offset + src.len()].copy_from_slice(src)
copy_from_slice(data, offset, src) ==
    [k \in 1..Len(data) |->
        IF k > offset /\ k <= offset + Len(src) THEN src[k - offset] ELSE data[k]]

\* `overflow_checks`: whether the build panics on arithmetic overflow (debug)
\* or wraps (release).
read_file_data_by_inode(m, inode, offset, size, overflow_checks) ==
    Let(lookup_file_by_inode(m, inode), LAMBDA file :
        IF file.tag # "Ok" THEN file
        ELSE Let(get_parsed(m.store, file.inner.content_hash), LAMBDA data :
            IF data = DecodeFailure THEN Err("Panic")
            ELSE Let(Len(data.data), LAMBDA data_len :
                 Let(offset, LAMBDA start :
                 Let(Min((start + size) % (usize_MAX + 1), data_len), LAMBDA end :
                    IF start + size > usize_MAX /\ overflow_checks THEN Err("Panic")
                    ELSE IF start >= data_len
                         THEN [tag |-> "Ok", file |-> file, datablock |-> DataBlock(<<>>)]
                    ELSE IF end < start THEN Err("Panic")
                    ELSE [tag |-> "Ok", file |-> file,
                          datablock |-> DataBlock(SubSeq(data.data, start + 1, end))])))))

\* The buffer of write_to_file after the two resizes and the copy.
written_data(existing, offset, data) ==
    Let(IF offset > Len(existing) THEN resize(existing, offset) ELSE existing,
        LAMBDA d1 :
    Let(IF offset + Len(data) > Len(d1) THEN resize(d1, offset + Len(data)) ELSE d1,
        LAMBDA d2 :
        copy_from_slice(d2, offset, data)))

\* A write that records the length of the written buffer as the file size.
write_to_file_written_len(m, inode, offset, data, now) ==
    Let(lookup_file_by_inode(m, inode), LAMBDA original_file :
    Let(read_file_data_by_inode(m, inode, 0, usize_MAX, TRUE), LAMBDA existing_data :
        IF original_file.tag # "Ok" THEN Fail(m, original_file)
        ELSE IF existing_data.tag # "Ok" THEN Fail(m, existing_data)
        ELSE IF offset + Len(data) > usize_MAX THEN Outcome(Panicked(m), "Panic", NoRet)
        ELSE Let(written_data(existing_data.datablock.data, offset, data), LAMBDA d :
             Let(replace_content(m, original_file.inner.content_hash, DataBlock(d)),
                 LAMBDA replaced :
                Outcome(update_index(replaced.m, inode,
                                     [existing_data.file.inner EXCEPT
                                        !.content_hash = replaced.hash,
                                        !.size = Len(data),
                                        !.common_attrs.mtime = now,
                                        !.common_attrs.ctime = now]),
                        "Ok", Len(data))))))

write_to_file(m, inode, offset, data, now) ==
    Let(lookup_file_by_inode(m, inode), LAMBDA original_file :
    Let(read_file_data_by_inode(m, inode, 0, usize_MAX, TRUE), LAMBDA existing_data :
        IF original_file.tag # "Ok" THEN Fail(m, original_file)
        ELSE IF existing_data.tag # "Ok" THEN Fail(m, existing_data)
        ELSE IF offset + Len(data) > usize_MAX THEN Outcome(Panicked(m), "Panic", NoRet)
        ELSE Let(written_data(existing_data.datablock.data, offset, data), LAMBDA d :
             Let(replace_content(m, original_file.inner.content_hash, DataBlock(d)),
                 LAMBDA replaced :
                Outcome(update_index(replaced.m, inode,
                                     [existing_data.file.inner EXCEPT
                                        !.content_hash = replaced.hash,
                                        !.size = Len(d),
                                        !.common_attrs.mtime = now,
                                        !.common_attrs.ctime = now]),
                        "Ok", Len(data))))))

\* `order`: the iteration order of the children map, as a sequence of names.
list_directory_by_inode(m, inode, order) ==
    Let(lookup_directory_by_inode(m, inode), LAMBDA directory :
        IF directory.tag # "Ok" THEN directory
        ELSE Let(SelectSeq(order, LAMBDA n : n \in DOMAIN directory.inner.children),
                 LAMBDA listed :
             Let([k \in 1..Len(listed) |->
                    lookup_record_by_inode(m, directory.inner.children[listed[k]])],
                 LAMBDA records :
             Let({k \in 1..Len(listed) : records[k].tag # "Ok"}, LAMBDA bad :
             Let(lookup_record_by_inode(m, directory.inner.parent), LAMBDA parent :
                IF bad # {}
                THEN records[CHOOSE k \in bad : \A j \in bad : k <= j]
                ELSE IF parent.tag # "Ok" THEN parent
                ELSE [tag |-> "Ok", directory |-> directory,
                      entries |-> [k \in 1..Len(listed) |->
                                      [name |-> listed[k], record |-> records[k]]]
                                  \o <<[name |-> ".", record |-> directory],
                                       [name |-> "..", record |-> parent]>>])))))

\* A removal that does not look at the children of the directory it removes.
remove_directory_by_name_unchecked(m, parent, name) ==
    Let(lookup_directory_by_name(m, parent, name), LAMBDA target :
    Let(lookup_directory_by_inode(m, parent), LAMBDA dir :
        IF target.tag # "Ok" THEN Fail(m, target)
        ELSE IF dir.tag # "Ok" THEN Fail(m, dir)
        ELSE Outcome(update_index(m, dir.inode, remove(dir.inner, name)),
                     "Ok", NoRet)))

\* A removal that unlinks the directory before it reports that it is not empty.
remove_directory_by_name_late_check(m, parent, name) ==
    Let(lookup_directory_by_name(m, parent, name), LAMBDA target :
    Let(lookup_directory_by_inode(m, parent), LAMBDA dir :
        IF target.tag # "Ok" THEN Fail(m, target)
        ELSE IF dir.tag # "Ok" THEN Fail(m, dir)
        ELSE Outcome(update_index(m, dir.inode, remove(dir.inner, name)),
                     IF DOMAIN target.inner.children # {}
                     THEN "DirectoryNotEmpty" ELSE "Ok",
                     NoRet)))

remove_directory_by_name(m, parent, name) ==
    Let(lookup_directory_by_name(m, parent, name), LAMBDA target :
    Let(lookup_directory_by_inode(m, parent), LAMBDA dir :
        IF target.tag # "Ok" THEN Fail(m, target)
        ELSE IF DOMAIN target.inner.children # {}
             THEN Outcome(m, "DirectoryNotEmpty", NoRet)
        ELSE IF dir.tag # "Ok" THEN Fail(m, dir)
        ELSE Outcome(update_index(m, dir.inode, remove(dir.inner, name)),
                     "Ok", NoRet)))

remove_file_by_name(m, parent, name) ==
    Let(lookup_file_by_name(m, parent, name), LAMBDA deleted_file :
        IF deleted_file.tag # "Ok" THEN Fail(m, deleted_file)
        ELSE Let(delete_content(m, deleted_file.source), LAMBDA m1 :
             Let(lookup_directory_by_inode(m1, parent), LAMBDA dir :
                IF m1.panicked THEN Outcome(m1, "Panic", NoRet)
                ELSE IF dir.tag # "Ok" THEN Fail(m1, dir)
                ELSE Outcome(update_index(m1, dir.inode, remove(dir.inner, name)),
                             "Ok", NoRet))))

update_attributes_by_inode(m, inode, attributes) ==
    Let(lookup_record_by_inode(m, inode), LAMBDA record :
        IF record.tag # "Ok" THEN Fail(m, record)
        ELSE Let(set_attrs(record.inner, attributes), LAMBDA updated :
                Outcome(update_index(m, inode, updated), "Ok",
                        Ok(updated, record.inode, record.source))))

\* FuseStoreExt::empty_root_dir on a content store
empty_root_dir(st, now) ==
    Let(add_parsed(st, DirectoryRecord(NoChildren, DefaultAttrs(now), INODE_DEFAULT)),
        LAMBDA root :
        add_parsed(root.store, INodeIndex_new(FUSE_ROOT_ID, root.hash)))

\* ------------------------------------------------------------------- state
VARIABLES
    index_hash,   \* InMemoryHashPointerReference.value: the root pointer
    store,        \* InMemoryContentStore.store: HashPointer -> bytes
    references,   \* Manifest.references: HashPointer -> count
    lastOp,       \* the most recent call: name, arguments, the engine state it
                  \* started from, its result and return value, its root writes
    created,      \* the inodes returned by successful creates, in order
    failed,       \* whether some call so far did not return Ok
    steps,        \* number of calls made
    slot,         \* the value registered under the Baybridge name, if any
    engines       \* the engines mounted on the Baybridge name, by engine

vars == <<index_hash, store, references, lastOp, created, failed, steps, slot, engines>>

\* The engine at the start of a call.
M == [index_hash |-> index_hash, store |-> store, references |-> references,
      sets |-> <<>>, panicked |-> FALSE]

EmptyStore == [h \in {} |-> EmptyBytes]
EmptyManifest == [h \in {} |-> 0]

\* empty_in_memory_bridgefs(): empty_root_dir on a fresh store, the pointer set
\* to the initial index, BridgeFS::new with Manifest::default().
Init ==
    \E now \in Times :
        LET initial == empty_root_dir(EmptyStore, now)
        IN  /\ index_hash = initial.hash
            /\ store = initial.store
            /\ references = EmptyManifest
            /\ lastOp = [op |-> "new", args |-> NoRet, pre |-> NoRet,
                         result |-> "Ok", ret |-> NoRet, sets |-> <<>>]
            /\ created = <<>>
            /\ failed = FALSE
            /\ steps = 0
            /\ slot = NoValue
            /\ engines = <<>>

Creates == {"create_file", "create_directory"}
Removes == {"remove_file_by_name", "remove_directory_by_name"}
Mutations == Creates \cup Removes \cup {"write_to_file", "update_attributes_by_inode"}
Reads == {"lookup_record_by_inode", "lookup_file_by_inode", "lookup_record_by_name",
          "read_file_data_by_inode", "list_directory_by_inode"}

\* One call of the engine: `out` is its outcome on M.
Call(op, args, out) ==
    /\ steps < MaxSteps
    /\ index_hash' = out.m.index_hash
    /\ store' = out.m.store
    /\ references' = out.m.references
    /\ lastOp' = [op |-> op, args |-> args,
                  pre |-> [index_hash |-> index_hash, store |-> store,
                           references |-> references],
                  result |-> out.result, ret |-> out.ret, sets |-> out.m.sets]
    /\ created' = IF op \in Creates /\ out.result = "Ok"
                  THEN Append(created, out.ret.inode) ELSE created
    /\ failed' = (failed \/ out.result # "Ok")
    /\ steps' = steps + 1
    /\ UNCHANGED <<slot, engines>>

\* A read-only call that counts a reference to the root it read.
ReadOutcome_counting(r) ==
    [m |-> [M EXCEPT !.references = add_reference(@, M.index_hash)],
     result |-> r.tag, ret |-> r]

\* The outcome of a read-only call that returned r.
ReadOutcome(r) ==
    [m |-> IF r.tag = "Panic" THEN Panicked(M) ELSE M, result |-> r.tag, ret |-> r]

\* The iteration orders of a map keyed by Names.
Orders ==
    {o \in [1..Cardinality(Names) -> Names] : \A n \in Names : \E k \in DOMAIN o : o[k] = n}

CreateFile ==
    \E parent \in Inodes, name \in Names, attributes \in AttrInputs :
        Call("create_file",
             [parent |-> parent, name |-> name, attributes |-> attributes],
             create_file(M, parent, name, attributes))

CreateDirectory ==
    \E parent \in Inodes, name \in Names, attributes \in AttrInputs :
        Call("create_directory",
             [parent |-> parent, name |-> name, attributes |-> attributes],
             create_directory(M, parent, name, attributes))

WriteToFile ==
    \E inode \in Inodes, offset \in Offsets, data \in Buffers, now \in Times :
        Call("write_to_file",
             [inode |-> inode, offset |-> offset, data |-> data, now |-> now],
             write_to_file(M, inode, offset, data, now))

RemoveDirectoryByName ==
    \E parent \in Inodes, name \in Names :
        Call("remove_directory_by_name", [parent |-> parent, name |-> name],
             remove_directory_by_name(M, parent, name))

RemoveFileByName ==
    \E parent \in Inodes, name \in Names :
        Call("remove_file_by_name", [parent |-> parent, name |-> name],
             remove_file_by_name(M, parent, name))

UpdateAttributesByInode ==
    \E inode \in Inodes, attributes \in AttrInputs :
        Call("update_attributes_by_inode",
             [inode |-> inode, attributes |-> attributes],
             update_attributes_by_inode(M, inode, attributes))

LookupRecordByInode ==
    \E inode \in Inodes :
        Call("lookup_record_by_inode", [inode |-> inode],
             ReadOutcome(lookup_record_by_inode(M, inode)))

LookupFileByInode ==
    \E inode \in Inodes :
        Call("lookup_file_by_inode", [inode |-> inode],
             ReadOutcome(lookup_file_by_inode(M, inode)))

LookupRecordByName ==
    \E parent \in Inodes, name \in Names :
        Call("lookup_record_by_name", [parent |-> parent, name |-> name],
             ReadOutcome(lookup_record_by_name(M, parent, name)))

ReadFileDataByInode ==
    \E inode \in Inodes, offset \in Offsets, size \in Sizes :
        \E overflow_checks \in IF offset + size > usize_MAX THEN BOOLEAN ELSE {TRUE} :
            Call("read_file_data_by_inode",
                 [inode |-> inode, offset |-> offset, size |-> size,
                  overflow_checks |-> overflow_checks],
                 ReadOutcome(read_file_data_by_inode(M, inode, offset, size,
                                                     overflow_checks)))

ListDirectoryByInode ==
    \E inode \in Inodes, order \in Orders :
        Call("list_directory_by_inode", [inode |-> inode, order |-> order],
             ReadOutcome(list_directory_by_inode(M, inode, order)))

Next ==
    \/ LookupRecordByInode
    \/ LookupFileByInode
    \/ LookupRecordByName
    \/ ReadFileDataByInode
    \/ ListDirectoryByInode
    \/ CreateFile
    \/ CreateDirectory
    \/ WriteToFile
    \/ RemoveDirectoryByName
    \/ RemoveFileByName
    \/ UpdateAttributesByInode

Spec == Init /\ [][Next]_vars

\* ------------------------------------------------------------- properties
\* The engine as the last call found it.
PreM == [index_hash |-> lastOp.pre.index_hash, store |-> lastOp.pre.store,
         references |-> lastOp.pre.references, sets |-> <<>>, panicked |-> FALSE]

CurrentIndex == get_parsed(store, index_hash)

LastOk(ops) == lastOp.op \in ops /\ lastOp.result = "Ok"

\* C1: a call that returns an error of the closed taxonomy leaves the root
\* pointer at the value it had before the call.
C1_ErrorLeavesRoot ==
    lastOp.result \in Errors => index_hash = lastOp.pre.index_hash

\* A mutation failed on a filesystem that earlier mutations had changed.
C1_Witness ==
    /\ lastOp.op \in Mutations
    /\ lastOp.result \in Errors
    /\ created # <<>>
    /\ index_hash = lastOp.pre.index_hash

\* C2: a mutation that returns an error of the taxonomy leaves the blobs of
\* the store and every count of the manifest as they were before the call.
C2_FailedMutationWritesNothing ==
    (lastOp.op \in Mutations /\ lastOp.result \in Errors) =>
        /\ store = lastOp.pre.store
        /\ references = lastOp.pre.references

\* C3: every record hash mapped in the current index resolves in the store,
\* and a mapped file record's content_hash resolves to a DataBlock whose
\* length is the record's size.
C3_NoDanglingHash ==
    /\ CurrentIndex # DecodeFailure
    /\ \A i \in DOMAIN CurrentIndex.inode_mapping :
          LET record == get_parsed(store, CurrentIndex.inode_mapping[i])
          IN  /\ record # DecodeFailure
              /\ record.kind \in {"File", "Directory"}
              /\ record.kind = "File" =>
                    /\ get_parsed(store, record.content_hash) # DecodeFailure
                    /\ get_parsed(store, record.content_hash).kind = "DataBlock"
                    /\ Len(get_parsed(store, record.content_hash).data) = record.size

\* A write has just grown a file that already had contents.
C3_Witness ==
    /\ LastOk({"write_to_file"})
    /\ lookup_file_by_inode(PreM, lastOp.args.inode).inner.size > 0
    /\ lookup_file_by_inode(M, lastOp.args.inode).inner.size
          > lookup_file_by_inode(PreM, lastOp.args.inode).inner.size
    /\ lastOp.ret < lookup_file_by_inode(M, lastOp.args.inode).inner.size

\* The inode that the last (successful) remove took out of its parent.
RemovedInode ==
    lookup_directory_by_inode(PreM, lastOp.args.parent).inner.children[lastOp.args.name]

\* C4: after a successful remove_file_by_name or remove_directory_by_name the
\* current index has no mapping for the removed inode, and a lookup of that
\* inode returns NotFound.
C4_RemovedInodeUnmapped ==
    LastOk(Removes) =>
        /\ ~lookup_inode(CurrentIndex, RemovedInode).some
        /\ lookup_record_by_inode(M, RemovedInode).tag = "NotFound"

AllHashes == DOMAIN store \cup DOMAIN references \cup {index_hash}

\* The logical slots that hold hash h: the root pointer, the entries of the
\* current index, the content_hash fields of the file records mapped there.
Slots(h) ==
    (IF h = index_hash THEN 1 ELSE 0)
    + Cardinality({i \in DOMAIN CurrentIndex.inode_mapping :
                      CurrentIndex.inode_mapping[i] = h})
    + Cardinality({i \in DOMAIN CurrentIndex.inode_mapping :
                      /\ get_parsed(store, CurrentIndex.inode_mapping[i]).kind = "File"
                      /\ get_parsed(store, CurrentIndex.inode_mapping[i]).content_hash = h})

\* C5: the manifest count of every hash is the number of logical slots that
\* hold it; a hash that no slot holds is absent from the manifest.
C5_CountIsSlots ==
    \A h \in AllHashes :
        /\ Count(references, h) = Slots(h)
        /\ h \in DOMAIN references <=> Slots(h) > 0

\* The inodes named by the directories among the inodes S.
NamedBy(S) ==
    UNION {IF lookup_directory_by_inode(M, i).tag = "Ok"
           THEN {lookup_directory_by_inode(M, i).inner.children[n] :
                    n \in DOMAIN lookup_directory_by_inode(M, i).inner.children}
           ELSE {} : i \in S}

RECURSIVE ReachableFrom(_)

ReachableFrom(S) ==
    IF NamedBy(S) \subseteq S THEN S ELSE ReachableFrom(S \cup NamedBy(S))

\* The inodes reachable by name from the root directory.
Reachable == ReachableFrom({FUSE_ROOT_ID})

\* C6: after a sequence of successful operations, the DataBlock of every file
\* reachable by name from the root has a positive count in the manifest.
C6_SharedBlockCounted ==
    ~failed =>
        \A i \in Reachable :
            lookup_file_by_inode(M, i).tag = "Ok" =>
                Count(references, lookup_file_by_inode(M, i).inner.content_hash) > 0

\* C7: during one mutation the only values written to the root pointer are
\* the root before the call and the root after it.
C7_RootAdvancesOnce ==
    lastOp.op \in Mutations =>
        \A k \in DOMAIN lastOp.sets :
            lastOp.sets[k].value \in {lastOp.pre.index_hash, index_hash}

\* C8: the root pointer always resolves to a stored index whose mapped record
\* hashes resolve, and so did every value at the moment it was written to the
\* root pointer.
C8_RootNeverDangling ==
    /\ RootResolves(store, index_hash)
    /\ \A k \in DOMAIN lastOp.sets : lastOp.sets[k].resolved

\* A create has just written the root pointer twice.
C8_Witness ==
    /\ LastOk(Creates)
    /\ Len(lastOp.sets) = 2
    /\ lastOp.sets[1].value # lastOp.sets[2].value
    /\ \A k \in DOMAIN lastOp.sets : lastOp.sets[k].resolved

\* C9: the inodes returned by successful creates start at 2 and are strictly
\* increasing, so none is returned twice; a failed create consumes none, so
\* consecutive successful creates return consecutive inodes.
C9_InodesIncrease ==
    /\ created # <<>> => created[1] = INODE_DEFAULT
    /\ \A j, k \in DOMAIN created : j < k => created[j] < created[k]
    /\ \A k \in DOMAIN created : k > 1 => created[k] = created[k - 1] + 1
    /\ (lastOp.op \in Creates /\ lastOp.result # "Ok") =>
          CurrentIndex.next_inode = get_parsed(lastOp.pre.store,
                                               lastOp.pre.index_hash).next_inode

\* The entry created first has been removed and a second create, of the same
\* name, has returned the next inode.
C9_Witness ==
    /\ LastOk(Creates)
    /\ created = <<INODE_DEFAULT, INODE_DEFAULT + 1>>
    /\ lastOp.args.parent = FUSE_ROOT_ID
    /\ lookup_record_by_name(PreM, FUSE_ROOT_ID, lastOp.args.name).tag = "NotFound"
    /\ INODE_DEFAULT \notin Reachable

Max(a, b) == IF a > b THEN a ELSE b

\* The contents of the file of the last write before the call.
ContentBefore ==
    read_file_data_by_inode(PreM, lastOp.args.inode, 0, usize_MAX, TRUE).datablock.data

\* What the write is specified to leave: the old contents zero-extended to
\* max(len, offset + len(data)), with data overlaid at offset.
ExpectedContent ==
    [k \in 1..Max(Len(ContentBefore), lastOp.args.offset + Len(lastOp.args.data)) |->
        IF k > lastOp.args.offset /\ k <= lastOp.args.offset + Len(lastOp.args.data)
        THEN lastOp.args.data[k - lastOp.args.offset]
        ELSE IF k <= Len(ContentBefore) THEN ContentBefore[k] ELSE 0]

\* C10: a successful write returns len(data); a read from 0 of any size that
\* covers the new length then returns the specified contents, and the file
\* record's size is their length.
C10_WriteSemantics ==
    LastOk({"write_to_file"}) =>
        /\ lastOp.ret = Len(lastOp.args.data)
        /\ lookup_file_by_inode(M, lastOp.args.inode).inner.size = Len(ExpectedContent)
        /\ \A size \in Sizes :
              size >= Len(ExpectedContent) =>
                  /\ read_file_data_by_inode(M, lastOp.args.inode, 0, size, TRUE).tag = "Ok"
                  /\ read_file_data_by_inode(M, lastOp.args.inode, 0, size, TRUE)
                        .datablock.data = ExpectedContent

\* A write beyond the end of a file that had contents: a gap of zeros.
C10_Witness ==
    /\ LastOk({"write_to_file"})
    /\ Len(ContentBefore) > 0
    /\ lastOp.args.offset > Len(ContentBefore)
    /\ Len(lastOp.args.data) > 0
    /\ ExpectedContent[lastOp.args.offset] = 0

\* The bytes of the file that the last call named by inode, before the call.
FileBytes ==
    get_parsed(lastOp.pre.store,
               lookup_file_by_inode(PreM, lastOp.args.inode).inner.content_hash).data

\* C11: a read of an existing file succeeds for every offset and size of the
\* machine word, also when offset + size exceeds the word's maximum; it
\* returns no bytes when offset >= len and the bytes in
\* [offset, min(offset + size, len)) otherwise.
C11_ReadClamps ==
    (/\ lastOp.op = "read_file_data_by_inode"
     /\ lookup_file_by_inode(PreM, lastOp.args.inode).tag = "Ok") =>
        /\ lastOp.result = "Ok"
        /\ lastOp.ret.datablock.data =
              IF lastOp.args.offset >= Len(FileBytes) THEN <<>>
              ELSE SubSeq(FileBytes, lastOp.args.offset + 1,
                          Min(lastOp.args.offset + lastOp.args.size, Len(FileBytes)))

\* C12: on a fresh filesystem list_directory(1) succeeds with exactly the two
\* entries "." and "..", both bound to inode 1 and the root directory record.
C12_FreshRootListing ==
    (/\ lastOp.op = "list_directory_by_inode"
     /\ lastOp.args.inode = FUSE_ROOT_ID
     /\ steps = 1) =>
        /\ lastOp.result = "Ok"
        /\ Len(lastOp.ret.entries) = 2
        /\ lastOp.ret.entries[1].name = "."
        /\ lastOp.ret.entries[2].name = ".."
        /\ \A k \in 1..2 :
              lastOp.ret.entries[k].record = lookup_record_by_inode(M, FUSE_ROOT_ID)

\* C13: for every directory record mapped in the current index, each inode of
\* its children and the inode of its parent field is mapped in the index, and
\* the root directory's parent is the root inode.
C13_DirectoryInodesMapped ==
    /\ \A i \in DOMAIN CurrentIndex.inode_mapping :
          LET record == get_parsed(store, CurrentIndex.inode_mapping[i])
          IN  record.kind = "Directory" =>
                /\ \A n \in DOMAIN record.children :
                      lookup_inode(CurrentIndex, record.children[n]).some
                /\ lookup_inode(CurrentIndex, record.parent).some
    /\ lookup_directory_by_inode(M, FUSE_ROOT_ID).tag = "Ok"
    /\ lookup_directory_by_inode(M, FUSE_ROOT_ID).inner.parent = FUSE_ROOT_ID

\* The directory that the last call named by inode, before the call.
ListedDirectory == lookup_directory_by_inode(PreM, lastOp.args.inode)

\* C14: list_directory of a directory d with n children returns n + 2
\* entries: one per child with the child's name, inode and current record,
\* then "." bound to d and its record, then ".." bound to the inode and
\* record of d's parent.
C14_ListingShape ==
    (lastOp.op = "list_directory_by_inode" /\ ListedDirectory.tag = "Ok") =>
        LET children == ListedDirectory.inner.children
            n == Cardinality(DOMAIN children)
        IN  /\ lastOp.result = "Ok"
            /\ Len(lastOp.ret.entries) = n + 2
            /\ {lastOp.ret.entries[k].name : k \in 1..n} = DOMAIN children
            /\ \A k \in 1..n :
                  lastOp.ret.entries[k].record =
                      lookup_record_by_inode(M, children[lastOp.ret.entries[k].name])
            /\ lastOp.ret.entries[n + 1] =
                  [name |-> ".", record |-> lookup_record_by_inode(M, lastOp.args.inode)]
            /\ lastOp.ret.entries[n + 2].name = ".."
            /\ lastOp.ret.entries[n + 2].record.tag = "Ok"
            /\ lastOp.ret.entries[n + 2].record =
                  lookup_record_by_inode(M, ListedDirectory.inner.parent)

\* C15: create_file and create_directory in a directory whose children
\* already contain the name fail with AlreadyExists, whatever the variant of
\* the existing entry, and the entry keeps its inode and record.
C15_CreateExistingName ==
    (/\ lastOp.op \in Creates
     /\ lookup_record_by_name(PreM, lastOp.args.parent, lastOp.args.name).tag = "Ok") =>
        /\ lastOp.result = "AlreadyExists"
        /\ lookup_record_by_name(M, lastOp.args.parent, lastOp.args.name)
              = lookup_record_by_name(PreM, lastOp.args.parent, lastOp.args.name)

\* A create_file was refused because a directory has the name.
C15_Witness ==
    /\ lastOp.op = "create_file"
    /\ lastOp.result = "AlreadyExists"
    /\ lookup_record_by_name(M, lastOp.args.parent, lastOp.args.name).tag = "Ok"
    /\ lookup_record_by_name(M, lastOp.args.parent, lastOp.args.name).inner.kind
          = "Directory"

\* C16: after a successful create returning inode i, the lookups by inode i
\* and by (parent, name) return inode i with the record the create returned:
\* a file of size 0 with empty content and the given attributes, or a
\* directory with no children, the given parent and the given attributes.
C16_CreateThenLookup ==
    LastOk(Creates) =>
        /\ lookup_record_by_inode(M, lastOp.ret.inode) = lastOp.ret
        /\ lookup_record_by_name(M, lastOp.args.parent, lastOp.args.name) = lastOp.ret
        /\ lastOp.ret.inner.common_attrs = lastOp.args.attributes
        /\ lastOp.op = "create_file" =>
              /\ lastOp.ret.inner.kind = "File"
              /\ lastOp.ret.inner.size = 0
              /\ read_file_data_by_inode(M, lastOp.ret.inode, 0, usize_MAX, TRUE).tag = "Ok"
              /\ read_file_data_by_inode(M, lastOp.ret.inode, 0, usize_MAX, TRUE)
                    .datablock.data = <<>>
        /\ lastOp.op = "create_directory" =>
              /\ lastOp.ret.inner.kind = "Directory"
              /\ lastOp.ret.inner.children = NoChildren
              /\ lastOp.ret.inner.parent = lastOp.args.parent

\* A directory has been created inside a directory other than the root.
C16_Witness ==
    /\ LastOk({"create_directory"})
    /\ lastOp.args.parent # FUSE_ROOT_ID
    /\ lookup_record_by_inode(M, lastOp.ret.inode).inner.parent = lastOp.args.parent
    /\ lookup_record_by_name(M, lastOp.args.parent, lastOp.args.name).inode
          = lastOp.ret.inode

\* C17: after a successful remove of name n in directory p, the lookup of
\* (p, n) returns NotFound, the listing of p has one entry fewer, and every
\* other name in p resolves to the same inode and record as before.
C17_RemoveFrame ==
    LastOk(Removes) =>
        /\ lookup_record_by_name(M, lastOp.args.parent, lastOp.args.name).tag = "NotFound"
        /\ \A order \in Orders :
              /\ list_directory_by_inode(PreM, lastOp.args.parent, order).tag = "Ok"
              /\ list_directory_by_inode(M, lastOp.args.parent, order).tag = "Ok"
              /\ Len(list_directory_by_inode(M, lastOp.args.parent, order).entries)
                    = Len(list_directory_by_inode(PreM, lastOp.args.parent, order).entries) - 1
        /\ \A other \in Names \ {lastOp.args.name} :
              lookup_record_by_name(M, lastOp.args.parent, other)
                  = lookup_record_by_name(PreM, lastOp.args.parent, other)

\* An entry has been removed from a directory that holds another entry.
C17_Witness ==
    /\ LastOk(Removes)
    /\ \E other \in Names \ {lastOp.args.name} :
          lookup_record_by_name(M, lastOp.args.parent, other).tag = "Ok"

\* The directory that the last remove_directory_by_name named, before the call.
RemoveTarget == lookup_directory_by_name(PreM, lastOp.args.parent, lastOp.args.name)

\* C18: remove_directory_by_name of a directory that has a child fails with
\* DirectoryNotEmpty, and the directory and its children are still found by
\* name with the same inodes and records.
C18_NonEmptyDirectoryKept ==
    (/\ lastOp.op = "remove_directory_by_name"
     /\ RemoveTarget.tag = "Ok"
     /\ DOMAIN RemoveTarget.inner.children # {}) =>
        /\ lastOp.result = "DirectoryNotEmpty"
        /\ lookup_record_by_name(M, lastOp.args.parent, lastOp.args.name)
              = lookup_record_by_name(PreM, lastOp.args.parent, lastOp.args.name)
        /\ \A child \in Names :
              lookup_record_by_name(M, RemoveTarget.inode, child)
                  = lookup_record_by_name(PreM, RemoveTarget.inode, child)

\* The removal of a directory that holds an entry has been refused.
C18_Witness ==
    /\ lastOp.op = "remove_directory_by_name"
    /\ lastOp.result = "DirectoryNotEmpty"
    /\ lookup_directory_by_name(M, lastOp.args.parent, lastOp.args.name).tag = "Ok"
    /\ \E child \in Names :
          lookup_record_by_name(M, RemoveTarget.inode, child).tag = "Ok"

\* The index as the last call found it.
PreIndex == get_parsed(lastOp.pre.store, lastOp.pre.index_hash)

\* Whether inode i was mapped to a record of the given variant before the
\* last call.
WasMappedAs(i, variant) ==
    /\ lookup_inode(PreIndex, i).some
    /\ get_parsed(lastOp.pre.store, lookup_inode(PreIndex, i).hash).kind = variant

\* Whether (parent, name) named a record of the given variant before the call.
WasNamedAs(parent, name, variant) ==
    /\ WasMappedAs(parent, "Directory")
    /\ name \in DOMAIN get_parsed(lastOp.pre.store,
                                  lookup_inode(PreIndex, parent).hash).children
    /\ WasMappedAs(get_parsed(lastOp.pre.store,
                              lookup_inode(PreIndex, parent).hash).children[name],
                   variant)

\* C19: read, write and remove_file_by_name on a directory return
\* IsADirectory; list_directory on a file, lookup_by_name and create_* with a
\* file as parent and remove_directory_by_name on a file return
\* NotADirectory; the target keeps its record.
C19_VariantMismatch ==
    /\ (/\ lastOp.op \in {"read_file_data_by_inode", "write_to_file"}
        /\ WasMappedAs(lastOp.args.inode, "Directory")) =>
            /\ lastOp.result = "IsADirectory"
            /\ lookup_record_by_inode(M, lastOp.args.inode)
                  = lookup_record_by_inode(PreM, lastOp.args.inode)
    /\ (/\ lastOp.op = "remove_file_by_name"
        /\ WasNamedAs(lastOp.args.parent, lastOp.args.name, "Directory")) =>
            /\ lastOp.result = "IsADirectory"
            /\ lookup_record_by_name(M, lastOp.args.parent, lastOp.args.name)
                  = lookup_record_by_name(PreM, lastOp.args.parent, lastOp.args.name)
    /\ (/\ lastOp.op = "list_directory_by_inode"
        /\ WasMappedAs(lastOp.args.inode, "File")) =>
            /\ lastOp.result = "NotADirectory"
            /\ lookup_record_by_inode(M, lastOp.args.inode)
                  = lookup_record_by_inode(PreM, lastOp.args.inode)
    /\ (/\ lastOp.op \in Creates \cup {"lookup_record_by_name"}
        /\ WasMappedAs(lastOp.args.parent, "File")) =>
            /\ lastOp.result = "NotADirectory"
            /\ lookup_record_by_inode(M, lastOp.args.parent)
                  = lookup_record_by_inode(PreM, lastOp.args.parent)
    /\ (/\ lastOp.op = "remove_directory_by_name"
        /\ WasNamedAs(lastOp.args.parent, lastOp.args.name, "File")) =>
            /\ lastOp.result = "NotADirectory"
            /\ lookup_record_by_name(M, lastOp.args.parent, lastOp.args.name)
                  = lookup_record_by_name(PreM, lastOp.args.parent, lastOp.args.name)

\* A write to a directory that holds an entry has been refused.
C19_Witness ==
    /\ lastOp.op = "write_to_file"
    /\ lastOp.result = "IsADirectory"
    /\ lookup_record_by_inode(M, lastOp.args.inode).tag = "Ok"
    /\ lookup_record_by_inode(M, lastOp.args.inode).inner.kind = "Directory"
    /\ lookup_record_by_inode(M, lastOp.args.inode).inner.children # NoChildren

\* C20: the calls that take an inode return NotFound when it is not mapped;
\* the calls that take a parent and a name return NotFound when the parent is
\* not mapped, and lookup_by_name and the removes when the parent directory
\* does not hold the name.
C20_MissingIsNotFound ==
    /\ (/\ lastOp.op \in {"lookup_record_by_inode", "lookup_file_by_inode",
                          "read_file_data_by_inode", "write_to_file",
                          "update_attributes_by_inode", "list_directory_by_inode"}
        /\ ~lookup_inode(PreIndex, lastOp.args.inode).some) =>
            lastOp.result = "NotFound"
    /\ (/\ lastOp.op \in Creates \cup Removes \cup {"lookup_record_by_name"}
        /\ ~lookup_inode(PreIndex, lastOp.args.parent).some) =>
            lastOp.result = "NotFound"
    /\ (/\ lastOp.op \in Removes \cup {"lookup_record_by_name"}
        /\ WasMappedAs(lastOp.args.parent, "Directory")
        /\ lastOp.args.name \notin
              DOMAIN get_parsed(lastOp.pre.store,
                                lookup_inode(PreIndex, lastOp.args.parent).hash).children) =>
            lastOp.result = "NotFound"

\* A remove has not found its name in a directory that holds another name.
C20_Witness ==
    /\ lastOp.op \in Removes
    /\ lastOp.result = "NotFound"
    /\ lookup_directory_by_inode(M, lastOp.args.parent).tag = "Ok"
    /\ lookup_directory_by_inode(M, lastOp.args.parent).inner.children # NoChildren
    /\ lastOp.args.name \notin
          DOMAIN lookup_directory_by_inode(M, lastOp.args.parent).inner.children

\* The record of the inode that the last call named, before and after it.
RecordBefore == lookup_record_by_inode(PreM, lastOp.args.inode)

RecordAfter == lookup_record_by_inode(M, lastOp.args.inode)

\* C21: a successful set_attrs(i, a) replaces the attributes of the record of
\* inode i by a and leaves its variant and every other field as they were;
\* a file reads the same bytes as before; the record returned is the one a
\* lookup of inode i returns afterwards, under the same inode number.
C21_SetAttrsFrame ==
    LastOk({"update_attributes_by_inode"}) =>
        /\ RecordAfter.tag = "Ok"
        /\ RecordAfter.inner =
              [RecordBefore.inner EXCEPT !.common_attrs = lastOp.args.attributes]
        /\ RecordAfter.inode = lastOp.args.inode
        /\ lastOp.ret.inner = RecordAfter.inner
        /\ lastOp.ret.inode = lastOp.args.inode
        /\ RecordBefore.inner.kind = "File" =>
              read_file_data_by_inode(M, lastOp.args.inode, 0, usize_MAX, TRUE).datablock
                  = read_file_data_by_inode(PreM, lastOp.args.inode, 0, usize_MAX, TRUE)
                        .datablock

\* The attributes of a file with contents have been changed.
C21_Witness ==
    /\ LastOk({"update_attributes_by_inode"})
    /\ RecordBefore.inner.kind = "File"
    /\ RecordBefore.inner.size > 0
    /\ RecordBefore.inner.common_attrs # lastOp.args.attributes
    /\ RecordAfter.inner.common_attrs = lastOp.args.attributes

\* C22: in every state between operations, the fresh filesystem included,
\* the current root hash has count 1 in the manifest; a call that advances
\* the root lowers the count of the old root hash by one.
C22_RootCountedOnce ==
    /\ Count(references, index_hash) = 1
    /\ (lastOp.op \in Mutations /\ index_hash # lastOp.pre.index_hash) =>
          Count(references, lastOp.pre.index_hash)
              = Count(lastOp.pre.references, lastOp.pre.index_hash) - 1

\* The hashes whose counts a replacement of the record of the last call's
\* inode may change: the old and new record hashes and index hashes.
ReplacedHashes ==
    {RecordBefore.source, RecordAfter.source, lastOp.pre.index_hash, index_hash}

\* C23: a successful set_attrs on a file leaves the count of the file's
\* DataBlock hash as it was, lowers the count of the old record hash and
\* raises the count of the new one (no change when they are equal), and
\* changes no count other than these and the index hashes'.
C23_SetAttrsCounts ==
    (LastOk({"update_attributes_by_inode"}) /\ RecordBefore.inner.kind = "File") =>
        /\ Count(references, RecordBefore.inner.content_hash)
              = Count(lastOp.pre.references, RecordBefore.inner.content_hash)
        /\ RecordAfter.source # RecordBefore.source =>
              /\ Count(references, RecordAfter.source)
                    = Count(lastOp.pre.references, RecordAfter.source) + 1
              /\ Count(references, RecordBefore.source)
                    = Count(lastOp.pre.references, RecordBefore.source) - 1
        /\ \A h \in AllHashes \ ReplacedHashes :
              Count(references, h) = Count(lastOp.pre.references, h)

\* C24: a successful write lowers the count of the file's previous DataBlock
\* hash by one and raises the count of the new DataBlock hash by one; the
\* count does not change when the two hashes are equal.
C24_WriteCounts ==
    LastOk({"write_to_file"}) =>
        IF RecordAfter.inner.content_hash = RecordBefore.inner.content_hash
        THEN Count(references, RecordAfter.inner.content_hash)
                = Count(lastOp.pre.references, RecordAfter.inner.content_hash)
        ELSE /\ Count(references, RecordBefore.inner.content_hash)
                   = Count(lastOp.pre.references, RecordBefore.inner.content_hash) - 1
             /\ Count(references, RecordAfter.inner.content_hash)
                   = Count(lastOp.pre.references, RecordAfter.inner.content_hash) + 1

\* The entry that the last remove named, before the call.
RemovedRecord == lookup_record_by_name(PreM, lastOp.args.parent, lastOp.args.name)

\* C25: a successful remove_directory_by_name lowers the manifest count of
\* the removed directory's record hash by one.
C25_RemovedDirectoryReleased ==
    LastOk({"remove_directory_by_name"}) =>
        Count(references, RemovedRecord.source)
            = Count(lastOp.pre.references, RemovedRecord.source) - 1

\* The hashes of the parent record and of the index, before and after the
\* last call.
ParentChainHashes ==
    {lookup_record_by_inode(PreM, lastOp.args.parent).source,
     lookup_record_by_inode(M, lastOp.args.parent).source,
     lastOp.pre.index_hash, index_hash}

\* C26: a successful remove_file_by_name lowers the count of the removed
\* file's record hash by one and the count of that record's DataBlock hash
\* by one, and changes no count other than these and those of the replaced
\* parent record and index hashes.
C26_RemoveFileCounts ==
    LastOk({"remove_file_by_name"}) =>
        /\ Count(references, RemovedRecord.source)
              = Count(lastOp.pre.references, RemovedRecord.source) - 1
        /\ Count(references, RemovedRecord.inner.content_hash)
              = Count(lastOp.pre.references, RemovedRecord.inner.content_hash) - 1
        /\ \A h \in AllHashes \ (ParentChainHashes
                                  \cup {RemovedRecord.source,
                                        RemovedRecord.inner.content_hash}) :
              Count(references, h) = Count(lastOp.pre.references, h)

\* ------------------------------------------------- the manifest on its own
\* Manifest::add_reference and Manifest::remove_reference applied to manifests
\* drawn from a bounded set: `references` is the manifest, `lastOp` the call
\* just made, and the store and root pointer play no part.
MaxCount == 2      \* counts of the starting manifests are drawn from 1..MaxCount

ManifestHashes == {blake3(DataBlock(b)) : b \in Buffers}

Manifests ==
    UNION {[d -> 1..MaxCount] : d \in SUBSET ManifestHashes}

ManifestInit ==
    /\ references \in Manifests
    /\ index_hash = blake3(EmptyBytes)
    /\ store = EmptyStore
    /\ lastOp = [op |-> "new", args |-> NoRet, pre |-> NoRet,
                 result |-> "Ok", ret |-> NoRet, sets |-> <<>>]
    /\ created = <<>>
    /\ failed = FALSE
    /\ steps = 0
    /\ slot = NoValue
    /\ engines = <<>>

ManifestCall(op, reference, refs) ==
    /\ steps < MaxSteps
    /\ references' = refs
    /\ lastOp' = [op |-> op, args |-> [reference |-> reference],
                  pre |-> [index_hash |-> index_hash, store |-> store,
                           references |-> references],
                  result |-> "Ok", ret |-> NoRet, sets |-> <<>>]
    /\ steps' = steps + 1
    /\ UNCHANGED <<index_hash, store, created, failed, slot, engines>>

AddReference ==
    \E reference \in ManifestHashes :
        ManifestCall("add_reference", reference, add_reference(references, reference))

RemoveReference ==
    \E reference \in ManifestHashes :
        ManifestCall("remove_reference", reference,
                     remove_reference(references, reference))

ManifestNext ==
    \/ AddReference
    \/ RemoveReference

ManifestSpec == ManifestInit /\ [][ManifestNext]_vars

\* C29: the manifest never holds a zero or negative count; remove_reference on
\* a hash with count 1 removes the entry, on a larger count lowers it by one,
\* and on an unknown hash changes nothing; add_reference raises the count of
\* exactly that hash by one, creating it at 1; no other entry changes.
C29_ManifestCounts ==
    /\ \A h \in DOMAIN references : references[h] > 0
    /\ lastOp.op \in {"add_reference", "remove_reference"} =>
         LET before == lastOp.pre.references
             reference == lastOp.args.reference
         IN  /\ \A h \in (DOMAIN before \cup DOMAIN references) \ {reference} :
                    /\ h \in DOMAIN before /\ h \in DOMAIN references
                    /\ references[h] = before[h]
             /\ lastOp.op = "add_reference" =>
                    /\ reference \in DOMAIN references
                    /\ references[reference] = Count(before, reference) + 1
             /\ lastOp.op = "remove_reference" =>
                    /\ reference \notin DOMAIN before => references = before
                    /\ Count(before, reference) = 1 =>
                           reference \notin DOMAIN references
                    /\ Count(before, reference) > 1 =>
                           /\ reference \in DOMAIN references
                           /\ references[reference] = before[reference] - 1

\* A count-1 entry was removed by a call that was not the first.
C29_Witness ==
    /\ lastOp.op = "remove_reference"
    /\ Count(lastOp.pre.references, lastOp.args.reference) = 1
    /\ lastOp.args.reference \notin DOMAIN references
    /\ steps >= 2

\* ------------------------------------------- the Baybridge pointer on its own
\* Two BaybridgeHashPointerReference values over one name, each with the
\* default its from_baybridge computed, called with get and set in any order.
Engines == {1, 2}

\* empty_root_dir(): the hash of the initial index, for a clock reading.
DefaultValues == {empty_root_dir(EmptyStore, now).hash : now \in Times}

\* Hashes of indexes an engine may set.
IndexHashes ==
    {blake3(INodeIndex_new(FUSE_ROOT_ID,
                           blake3(DirectoryRecord(NoChildren, attrs, INODE_DEFAULT)))) :
        attrs \in {DefaultAttrs(now) : now \in Times} \cup AttrInputs}

Reference(default_value) == [default_value |-> default_value]

BaybridgeInit ==
    /\ slot = NoValue
    /\ engines \in [Engines -> {Reference(d) : d \in DefaultValues}]
    /\ index_hash = blake3(EmptyBytes)
    /\ store = EmptyStore
    /\ references = EmptyManifest
    /\ lastOp = [op |-> "new", args |-> NoRet, pre |-> NoRet,
                 result |-> "Ok", ret |-> NoRet, sets |-> <<>>]
    /\ created = <<>>
    /\ failed = FALSE
    /\ steps = 0

\* One call on a reference; `pre` keeps the name's value and the call before.
BaybridgeCall(op, args, registered, ret, writes) ==
    /\ steps < MaxSteps
    /\ slot' = registered
    /\ lastOp' = [op |-> op, args |-> args,
                  pre |-> [slot |-> slot, op |-> lastOp.op, ret |-> lastOp.ret],
                  result |-> "Ok", ret |-> ret, sets |-> writes]
    /\ steps' = steps + 1
    /\ UNCHANGED <<index_hash, store, references, created, failed, engines>>

Get ==
    \E e \in Engines, read_error \in BOOLEAN :
        LET out == get(slot, engines[e].default_value, read_error)
        IN  BaybridgeCall("get", [engine |-> e, read_error |-> read_error],
                          out.registered, out.ret, out.writes)

Set ==
    \E e \in Engines, value \in IndexHashes :
        BaybridgeCall("set", [engine |-> e, value |-> value], set(slot, value),
                      NoRet, <<value>>)

BaybridgeNext ==
    \/ Get
    \/ Set

BaybridgeSpec == BaybridgeInit /\ [][BaybridgeNext]_vars

encode_to_vec_in(value, order) ==
    IF value.kind = "Directory"
    THEN [value EXCEPT !.children =
            Let(SelectSeq(order, LAMBDA n : n \in DOMAIN value.children),
                LAMBDA keys :
                [k \in 1..Len(keys) |-> <<keys[k], value.children[keys[k]]>>])]
    ELSE value

add_parsed_in(st, value, order) ==
    [store |-> add_content(st, encode_to_vec_in(value, order)),
     hash |-> blake3(encode_to_vec_in(value, order))]

\* Two engines, each building a DirectoryRecord by inserts and storing it.
Builder(value) ==
    [value |-> value, stored |-> FALSE, hash |-> blake3(EmptyBytes)]

EncodeInit ==
    /\ \E attributes \in AttrInputs :
          engines = [e \in Engines |->
                        Builder(DirectoryRecord(NoChildren, attributes, FUSE_ROOT_ID))]
    /\ store = EmptyStore
    /\ index_hash = blake3(EmptyBytes)
    /\ references = EmptyManifest
    /\ slot = NoValue
    /\ lastOp = [op |-> "new", args |-> NoRet, pre |-> NoRet,
                 result |-> "Ok", ret |-> NoRet, sets |-> <<>>]
    /\ created = <<>>
    /\ failed = FALSE
    /\ steps = 0

MaxBuild == 6      \* number of inserts and stores in a behaviour
MaxChild == 3      \* inserted inodes are drawn from FUSE_ROOT_ID + 1..MaxChild

EncodeCall(op, args, e, builder, st) ==
    /\ steps < MaxBuild
    /\ engines' = [engines EXCEPT ![e] = builder]
    /\ store' = st
    /\ lastOp' = [op |-> op, args |-> args, pre |-> NoRet,
                  result |-> "Ok", ret |-> NoRet, sets |-> <<>>]
    /\ steps' = steps + 1
    /\ UNCHANGED <<index_hash, references, slot, created, failed>>

Insert ==
    \E e \in Engines, filename \in Names, inode \in (FUSE_ROOT_ID + 1)..MaxChild :
        EncodeCall("insert", [engine |-> e, filename |-> filename, inode |-> inode],
                   e, Builder(insert(engines[e].value, filename, inode)), store)

AddParsed ==
    \E e \in Engines, order \in Orders :
        LET added == add_parsed_in(store, engines[e].value, order)
        IN  EncodeCall("add_parsed", [engine |-> e, order |-> order], e,
                       [engines[e] EXCEPT !.stored = TRUE, !.hash = added.hash],
                       added.store)

EncodeNext ==
    \/ Insert
    \/ AddParsed

EncodeSpec == EncodeInit /\ [][EncodeNext]_vars

\* C28: two engines that hold equal DirectoryRecords, whatever the order of
\* the inserts that built them, stored them under the same hash.
C28_EncodingDeterministic ==
    \A e1, e2 \in Engines :
        (/\ engines[e1].stored
         /\ engines[e2].stored
         /\ engines[e1].value = engines[e2].value)
        => engines[e1].hash = engines[e2].hash

\* ---------------------------------------------- two engines on one Baybridge
\* Two engines made by from_baybridge over one adapter: the name (`slot`) and
\* the content store (`store`) are shared, the manifest is each engine's own.
\* The name is the only shared cell that is overwritten (the store only grows,
\* keyed by content), so a call is split at its writes of the name: an engine
\* begins a call by reading the name and computing the call on what it read,
\* then registers the roots the call sets, one step each; the other engine's
\* steps fall anywhere in between.
MaxEngineSteps == 7   \* number of steps of the two engines in a behaviour
MaxCalls == 2         \* calls an engine makes

EngineOps == {"create_file", "write_to_file", "remove_file_by_name"}

\* Inode arguments of the engines' calls: the root and the first inode created.
EngineInodes == FUSE_ROOT_ID..INODE_DEFAULT

\* BridgeFS::new(index_hash, store) with the default from_baybridge computed.
Engine(default_value) ==
    [default_value |-> default_value, references |-> EmptyManifest,
     pending |-> <<>>, loaded |-> default_value, op |-> "new", args |-> NoRet,
     result |-> "Ok", ret |-> NoRet, calls |-> 0]

\* from_baybridge, once per engine: empty_root_dir() on the shared store.
EnginesInit ==
    /\ \E now \in [Engines -> Times] :
          /\ store = empty_root_dir(empty_root_dir(EmptyStore, now[1]).store,
                                    now[2]).store
          /\ engines = [e \in Engines |->
                           Engine(empty_root_dir(EmptyStore, now[e]).hash)]
    /\ slot = NoValue
    /\ index_hash = blake3(EmptyBytes)
    /\ references = EmptyManifest
    /\ lastOp = [op |-> "new", args |-> NoRet, pre |-> NoRet,
                 result |-> "Ok", ret |-> NoRet, sets |-> <<>>]
    /\ created = <<>>
    /\ failed = FALSE
    /\ steps = 0

\* Engine e as its call finds it: the root it gets from the name (the reads
\* of the registry do not fail here).
EngineM(e) ==
    [index_hash |-> get(slot, engines[e].default_value, FALSE).ret, store |-> store,
     references |-> engines[e].references, sets |-> <<>>, panicked |-> FALSE]

\* Engine e begins a call: its first get registers the default on a name
\* without a value; `out` is the outcome of the call on EngineM(e), whose root
\* writes become pending.
Begin(e, op, args, out) ==
    /\ steps < MaxEngineSteps
    /\ engines[e].pending = <<>>
    /\ engines[e].result # "Panic"
    /\ engines[e].calls < MaxCalls
    /\ slot' = get(slot, engines[e].default_value, FALSE).registered
    /\ store' = out.m.store
    /\ engines' = [engines EXCEPT ![e] =
                      [@ EXCEPT !.references = out.m.references,
                                !.pending = [k \in 1..Len(out.m.sets) |->
                                                out.m.sets[k].value],
                                !.loaded = EngineM(e).index_hash,
                                !.op = op, !.args = args,
                                !.result = out.result, !.ret = out.ret,
                                !.calls = @ + 1]]
    /\ lastOp' = [op |-> op, args |-> [engine |-> e], pre |-> NoRet,
                  result |-> out.result, ret |-> out.ret, sets |-> <<>>]
    /\ steps' = steps + 1
    /\ UNCHANGED <<index_hash, references, created, failed>>

EngineCreateFile ==
    \E e \in Engines, parent \in EngineInodes, name \in Names :
        Begin(e, "create_file", [parent |-> parent, name |-> name],
              create_file(EngineM(e), parent, name, DefaultAttrs(0)))

EngineWriteToFile ==
    \E e \in Engines, inode \in EngineInodes, data \in Buffers :
        Begin(e, "write_to_file", [inode |-> inode, data |-> data],
              write_to_file(EngineM(e), inode, 0, data, 0))

EngineRemoveFileByName ==
    \E e \in Engines, parent \in EngineInodes, name \in Names :
        Begin(e, "remove_file_by_name", [parent |-> parent, name |-> name],
              remove_file_by_name(EngineM(e), parent, name))

\* Engine e registers the next root its call sets.
EngineSet ==
    \E e \in Engines :
        /\ steps < MaxEngineSteps
        /\ engines[e].pending # <<>>
        /\ slot' = set(slot, Head(engines[e].pending))
        /\ engines' = [engines EXCEPT ![e].pending = Tail(@)]
        /\ lastOp' = [op |-> "set",
                      args |-> [engine |-> e, value |-> Head(engines[e].pending)],
                      pre |-> NoRet, result |-> "Ok", ret |-> NoRet, sets |-> <<>>]
        /\ steps' = steps + 1
        /\ UNCHANGED <<index_hash, store, references, created, failed>>

EnginesNext ==
    \/ EngineCreateFile
    \/ EngineWriteToFile
    \/ EngineRemoveFileByName
    \/ EngineSet

EnginesSpec == EnginesInit /\ [][EnginesNext]_vars

\* Engine e has returned Ok from a mutation, all its root writes made.
Completed(e) ==
    /\ engines[e].op \in EngineOps
    /\ engines[e].result = "Ok"
    /\ engines[e].pending = <<>>

\* The filesystem under the registered root.
FinalM ==
    [index_hash |-> get_internal(slot, FALSE).hash, store |-> store,
     references |-> EmptyManifest, sets |-> <<>>, panicked |-> FALSE]

MappingAt(hash) == get_parsed(store, hash).inode_mapping

ChildrenAt(hash, parent) == get_parsed(store, MappingAt(hash)[parent]).children

\* The inodes whose index entries the call of engine e writes.
Touched(e) ==
    CASE engines[e].op = "create_file" -> {engines[e].args.parent, engines[e].ret.inode}
      [] engines[e].op = "write_to_file" -> {engines[e].args.inode}
      [] engines[e].op = "remove_file_by_name" -> {engines[e].args.parent}

\* C27: when two engines have loaded the same root R and both returned Ok,
\* the root registered by the later of them is that engine's own: apart from
\* the inodes its call wrote, the index is R's, and the directory it changed
\* is R's directory with its one name added or removed.  Whatever the other
\* engine registered in between is gone, and neither call reported an error.
C27_LastWriterWins ==
    \A e1, e2 \in Engines :
        (/\ e1 # e2
         /\ Completed(e1)
         /\ Completed(e2)
         /\ engines[e1].loaded = engines[e2].loaded
         /\ lastOp.op = "set"
         /\ lastOp.args.engine = e2)
        => LET R == engines[e2].loaded
               final == FinalM.index_hash
               call == engines[e2]
           IN  /\ final = lastOp.args.value
               /\ DOMAIN MappingAt(final) = DOMAIN MappingAt(R) \cup Touched(e2)
               /\ \A i \in DOMAIN MappingAt(R) \ Touched(e2) :
                      MappingAt(final)[i] = MappingAt(R)[i]
               /\ call.op = "create_file" =>
                      ChildrenAt(final, call.args.parent) =
                          insert([children |-> ChildrenAt(R, call.args.parent)],
                                 call.args.name, call.ret.inode).children
               /\ call.op = "remove_file_by_name" =>
                      ChildrenAt(final, call.args.parent) =
                          remove([children |-> ChildrenAt(R, call.args.parent)],
                                 call.args.name).children

\* Both engines loaded the same root and created a file in the root
\* directory; both returned Ok; the name the first one created is not found
\* under the root registered last.
C27_Witness ==
    \E e1, e2 \in Engines :
        /\ e1 # e2
        /\ Completed(e1)
        /\ Completed(e2)
        /\ engines[e1].loaded = engines[e2].loaded
        /\ engines[e1].op = "create_file"
        /\ engines[e2].op = "create_file"
        /\ lastOp.op = "set"
        /\ lastOp.args.engine = e2
        /\ lookup_record_by_name(FinalM, engines[e1].args.parent,
                                 engines[e1].args.name).tag = "NotFound"

\* The variant of the record that index maps inode i to.
VariantAt(st, index, i) == get_parsed(st, index.inode_mapping[i]).kind

\* C31: an inode keeps its variant: every inode mapped before a call and
\* after it is mapped to a record of the same variant; and the inode a
\* successful create returns is fresh: the index had no mapping for it, and
\* it is neither the root nor an inode an earlier create returned.
C31_VariantFixed ==
    lastOp.op # "new" =>
        /\ \A i \in DOMAIN PreIndex.inode_mapping \cap DOMAIN CurrentIndex.inode_mapping :
              VariantAt(store, CurrentIndex, i) = VariantAt(lastOp.pre.store, PreIndex, i)
        /\ LastOk(Creates) =>
              /\ lastOp.ret.inode \notin DOMAIN PreIndex.inode_mapping
              /\ lastOp.ret.inode # FUSE_ROOT_ID
              /\ \A k \in 1..(Len(created) - 1) : created[k] # lastOp.ret.inode

\* A file was created and removed, and its name was created again as a
\* directory: the directory has a new inode and the file's inode still maps
\* to a file record.
C31_Witness ==
    /\ LastOk({"create_directory"})
    /\ Len(created) = 2
    /\ lastOp.ret.inode # created[1]
    /\ lastOp.pre.index_hash # index_hash
    /\ WasMappedAs(created[1], "File")
    /\ ~WasNamedAs(lastOp.args.parent, lastOp.args.name, "File")
    /\ VariantAt(store, CurrentIndex, created[1]) = "File"
    /\ VariantAt(store, CurrentIndex, lastOp.ret.inode) = "Directory"
    /\ lookup_directory_by_name(M, lastOp.args.parent, lastOp.args.name).tag = "Ok"
    /\ steps = 3

\* C32: the store is content-addressed and append-only: every stored blob is
\* stored under the hash of its bytes, a second put of stored bytes returns
\* the same hash and leaves the store as it is, and every hash stored before a
\* call still yields the same bytes after it.
C32_ContentAddressed ==
    /\ \A h \in DOMAIN store :
          /\ blake3(store[h]) = h
          /\ get_content(store, h) = store[h]
          /\ add_content(store, store[h]) = store
          /\ add_parsed(store, decode_from_slice(store[h])).hash = h
    /\ lastOp.op # "new" =>
          \A h \in DOMAIN lastOp.pre.store :
              get_content(store, h) = lastOp.pre.store[h]

\* A second create_file has put the empty DataBlock again: the blobs of
\* before are all there, with new ones beside them.
C32_Witness ==
    /\ LastOk({"create_file"})
    /\ Len(created) = 2
    /\ lastOp.ret.inner.content_hash \in DOMAIN lastOp.pre.store
    /\ DOMAIN lastOp.pre.store \subseteq DOMAIN store
    /\ DOMAIN store # DOMAIN lastOp.pre.store
    /\ get_content(store, lastOp.ret.inner.content_hash) = DataBlock(<<>>)

\* ------------------------------------------------ the content store on its own
\* InMemoryContentStore called directly: blobs are put, and hashes of blobs,
\* stored or not, are fetched with get_content and get_parsed.
Blobs == {DataBlock(b) : b \in Buffers}
                \cup {DirectoryRecord(NoChildren, attrs, INODE_DEFAULT) : attrs \in AttrInputs}

StoreInit ==
    /\ store = EmptyStore
    /\ index_hash = blake3(EmptyBytes)
    /\ references = EmptyManifest
    /\ lastOp = [op |-> "new", args |-> NoRet, pre |-> NoRet,
                 result |-> "Ok", ret |-> NoRet, sets |-> <<>>]
    /\ created = <<>>
    /\ failed = FALSE
    /\ steps = 0
    /\ slot = NoValue
    /\ engines = <<>>

StoreCall(op, args, st, result, ret) ==
    /\ steps < MaxSteps
    /\ store' = st
    /\ lastOp' = [op |-> op, args |-> args,
                  pre |-> [index_hash |-> index_hash, store |-> store,
                           references |-> references],
                  result |-> result, ret |-> ret, sets |-> <<>>]
    /\ steps' = steps + 1
    /\ UNCHANGED <<index_hash, references, created, failed, slot, engines>>

AddContent ==
    \E content \in Blobs :
        StoreCall("add_content", [content |-> content], add_content(store, content),
                  "Ok", blake3(content))

\* get_content returns a Vec<u8>, never an error.
GetContent ==
    \E content \in Blobs :
        StoreCall("get_content", [hash |-> blake3(content)], store,
                  "Ok", get_content(store, blake3(content)))

\* get_parsed unwraps the decoding: a failure to decode is a panic.
GetParsed ==
    \E content \in Blobs :
        StoreCall("get_parsed", [hash |-> blake3(content)], store,
                  IF get_parsed(store, blake3(content)) = DecodeFailure
                  THEN "Panic" ELSE "Ok",
                  IF get_parsed(store, blake3(content)) = DecodeFailure
                  THEN NoRet ELSE get_parsed(store, blake3(content)))

StoreNext ==
    \/ AddContent
    \/ GetContent
    \/ GetParsed

StoreSpec == StoreInit /\ [][StoreNext]_vars

\* C33: a get of a hash that is absent from the store fails: it does not
\* return Ok, it returns no bytes, and it leaves the store as it was.
C33_AbsentGetFails ==
    (/\ lastOp.op \in {"get_content", "get_parsed"}
     /\ lastOp.args.hash \notin DOMAIN lastOp.pre.store)
    => /\ lastOp.result # "Ok"
       /\ lastOp.ret = NoRet
       /\ store = lastOp.pre.store

\* C34: the inode a successful create_file or create_directory returns is
\* reachable from the root by a chain of names when the call returns.
C34_NoOrphanCreated ==
    LastOk(Creates) => lastOp.ret.inode \in Reachable

ParentsOf(d) ==
    {p \in DOMAIN CurrentIndex.inode_mapping :
        /\ lookup_directory_by_inode(M, p).tag = "Ok"
        /\ \E n \in DOMAIN lookup_directory_by_inode(M, p).inner.children :
              lookup_directory_by_inode(M, p).inner.children[n] = d}

\* C36: every directory d other than the root that a directory p names as a
\* child has p in its parent field; and a listing of such a d ends with ".."
\* bound to inode p and to the record p has now.
C36_ParentAgreesWithChildren ==
    /\ \A d \in DOMAIN CurrentIndex.inode_mapping \ {FUSE_ROOT_ID} :
          lookup_directory_by_inode(M, d).tag = "Ok" =>
              \A p \in ParentsOf(d) : lookup_directory_by_inode(M, d).inner.parent = p
    /\ (/\ lastOp.op = "list_directory_by_inode"
        /\ lastOp.args.inode # FUSE_ROOT_ID
        /\ ListedDirectory.tag = "Ok") =>
          \A p \in ParentsOf(lastOp.args.inode) :
              /\ lastOp.result = "Ok"
              /\ lastOp.ret.entries[Len(lastOp.ret.entries)] =
                    [name |-> "..", record |-> lookup_record_by_inode(M, p)]
              /\ lastOp.ret.entries[Len(lastOp.ret.entries)].record.inode = p

\* A subdirectory of the root was listed after the root had been given
\* another child: ".." carries the root's record with both children.
C36_Witness ==
    /\ LastOk({"list_directory_by_inode"})
    /\ lastOp.args.inode # FUSE_ROOT_ID
    /\ ParentsOf(lastOp.args.inode) = {FUSE_ROOT_ID}
    /\ Len(created) = 2
    /\ lastOp.args.inode = created[1]
    /\ lastOp.ret.entries[Len(lastOp.ret.entries)].name = ".."
    /\ Cardinality(DOMAIN lastOp.ret.entries[Len(lastOp.ret.entries)].record.inner.children) = 2

\* The (directory, name) pairs of the current index that bind inode i.
Bindings(i) ==
    {<<p, n>> \in (DOMAIN CurrentIndex.inode_mapping) \X Names :
        /\ lookup_directory_by_inode(M, p).tag = "Ok"
        /\ n \in DOMAIN lookup_directory_by_inode(M, p).inner.children
        /\ lookup_directory_by_inode(M, p).inner.children[n] = i}

\* C37: over the directories mapped in the current index, every inode is
\* bound by at most one (directory, name) pair, and no pair binds the root.
C37_NoHardLinks ==
    /\ \A i \in Inodes \cup DOMAIN CurrentIndex.inode_mapping :
          Cardinality(Bindings(i)) <= 1
    /\ Bindings(FUSE_ROOT_ID) = {}

\* Three creates in two directories: each created inode has its one binding.
C37_Witness ==
    /\ Len(created) = 3
    /\ \A k \in 1..3 : Cardinality(Bindings(created[k])) = 1
    /\ \E j, k \in 1..3 :
          \E b \in Bindings(created[j]), c \in Bindings(created[k]) : b[1] # c[1]

\* C38: a get on a name that holds a root leaves it there, whether or not
\* the read of the registry succeeds: the registered value is the one of
\* before the call.
C38_GetKeepsRoot ==
    (lastOp.op = "get" /\ lastOp.pre.slot # NoValue) => slot = lastOp.pre.slot

====
